---------------------------- MODULE Spec2Model ----------------------------
(***************************************************************************)
(* tools/convert_doors.py: the door SQL -> YAML converter.                 *)
(*                                                                         *)
(* Two input files (door_gfxs.sql, spawnlist_door.sql) are scanned line by *)
(* line with a regular expression; every line the expression is found in   *)
(* yields one entry; the entries are then written as two YAML documents.  *)
(*                                                                         *)
(* Text is modelled as text: a line is a TLA+ string, the two regular      *)
(* expressions are matched character by character, int() and the f-string  *)
(* formatting of an integer are computed digit by digit.  A file is the    *)
(* sequence of its lines (each line, and each f.write() argument, ends in  *)
(* "\n").                                                                  *)
(***************************************************************************)
EXTENDS Integers, Sequences, FiniteSets, TLC

(***************************************************************************)
(* Bounds of the model.                                                    *)
(***************************************************************************)
\* Lines in the two input files together.
MaxLines == 2

(***************************************************************************)
(* Characters and character classes of the regular expressions.            *)
(***************************************************************************)
CharAt(s, i) == SubSeq(s, i, i)

\* \d  (the ASCII digits; the inputs of the model hold no other digits)
IsDigit(c) == c \in {"0", "1", "2", "3", "4", "5", "6", "7", "8", "9"}

\* \s  (the ASCII whitespace)
IsSpace(c) == c \in {" ", "\t", "\n", "\r", "\f"}

\* [^']
IsNotQuote(c) == c # "'"

InClass(cls, c) ==
  CASE cls = "digit" -> IsDigit(c)
    [] cls = "space" -> IsSpace(c)
    [] cls = "text"  -> IsNotQuote(c)

\* The end of the longest run of characters of class cls that starts at i:
\* the index of the first character at or after i that is not in the class.
RECURSIVE SpanEnd(_, _, _)
SpanEnd(s, i, cls) ==
  IF i <= Len(s) /\ InClass(cls, CharAt(s, i))
    THEN SpanEnd(s, i + 1, cls)
    ELSE i

\* The two patterns (lines 9-11 and 28-30), as the sequence of their elements:
\*   Lit(t)   the literal text t
\*   Ws       \s*
\*   Num      the captured group  \d+
\*   SNum     the captured group  -?\d+
\*   Text     the captured group  [^']*
\* Every repetition is followed by the literal quote, which ends each of the
\* three classes (no digit, no whitespace and no [^'] character is a quote):
\* the greedy match of a repetition is the only one that can succeed, and the
\* matcher below needs no backtracking.
Lit(t) == [kind |-> "lit", text |-> t]
Ws     == [kind |-> "ws", text |-> ""]
Num    == [kind |-> "num", text |-> ""]
SNum   == [kind |-> "snum", text |-> ""]
Text   == [kind |-> "text", text |-> ""]

\* ',\s*'   between two quoted fields
Sep == <<Lit("',"), Ws, Lit("'")>>

\* The pattern with \d+ for the two edge offsets as well.
GfxPatternUnsigned ==
  <<Lit("INSERT INTO `door_gfxs` VALUES ('"), Num>> \o Sep \o <<Text>> \o Sep
    \o <<Num>> \o Sep \o <<Num>> \o Sep \o <<Num, Lit("');")>>

\* pattern of parse_gfx_sql
GfxPattern ==
  <<Lit("INSERT INTO `door_gfxs` VALUES ('"), Num>> \o Sep \o <<Text>> \o Sep
    \o <<Num>> \o Sep \o <<SNum>> \o Sep \o <<SNum, Lit("');")>>

\* pattern of parse_spawn_sql
SpawnPattern ==
  <<Lit("INSERT INTO `spawnlist_door` VALUES ('"), Num>> \o Sep \o <<Text>> \o Sep
    \o <<Num>> \o Sep \o <<Num>> \o Sep \o <<Num>> \o Sep \o <<Num>> \o Sep
    \o <<Num>> \o Sep \o <<Num>> \o Sep \o <<Num, Lit("');")>>

NoMatch == [ok |-> FALSE, groups |-> <<>>]

\* The match of pat[k..] against line at position i, groups being the groups
\* captured so far.
RECURSIVE MatchHere(_, _, _, _, _)
MatchHere(pat, k, line, i, groups) ==
  IF k > Len(pat) THEN [ok |-> TRUE, groups |-> groups]
  ELSE LET el == pat[k] IN
    CASE el.kind = "lit" ->
           LET j == i + Len(el.text) IN
           IF j - 1 <= Len(line) /\ SubSeq(line, i, j - 1) = el.text
             THEN MatchHere(pat, k + 1, line, j, groups)
             ELSE NoMatch
      [] el.kind = "ws" ->
           MatchHere(pat, k + 1, line, SpanEnd(line, i, "space"), groups)
      [] el.kind = "num" ->
           LET j == SpanEnd(line, i, "digit") IN
           IF j > i
             THEN MatchHere(pat, k + 1, line, j, Append(groups, SubSeq(line, i, j - 1)))
             ELSE NoMatch
      [] el.kind = "snum" ->
           LET d == IF i <= Len(line) /\ CharAt(line, i) = "-" THEN i + 1 ELSE i
               j == SpanEnd(line, d, "digit")
           IN IF j > d
                THEN MatchHere(pat, k + 1, line, j, Append(groups, SubSeq(line, i, j - 1)))
                ELSE NoMatch
      [] el.kind = "text" ->
           LET j == SpanEnd(line, i, "text") IN
           MatchHere(pat, k + 1, line, j, Append(groups, SubSeq(line, i, j - 1)))

\* pattern.match(line): a match at the start of the line only.
MatchAtStart(pat, line) == MatchHere(pat, 1, line, 1, <<>>)

\* pattern.search(line): the leftmost match anywhere in the line.
SearchAnywhere(pat, line) ==
  LET hits == {i \in 1..Len(line) : MatchHere(pat, 1, line, i, <<>>).ok} IN
  IF hits = {} THEN NoMatch
  ELSE MatchHere(pat, 1, line, CHOOSE i \in hits : \A j \in hits : i <= j, <<>>)

\* m = pattern.search(line)   (lines 14 and 33)
Search(pat, line) == SearchAnywhere(pat, line)

(***************************************************************************)
(* int(s) of a group, and the f-string formatting of an integer.           *)
(***************************************************************************)
DigitValue(c) == CHOOSE d \in 0..9 : CharAt("0123456789", d + 1) = c

\* int() of a string of digits
RECURSIVE Natural(_)
Natural(s) ==
  IF Len(s) = 0 THEN 0
  ELSE 10 * Natural(SubSeq(s, 1, Len(s) - 1)) + DigitValue(CharAt(s, Len(s)))

\* int(s): s is -?\d+
Int_(s) ==
  IF CharAt(s, 1) = "-" THEN 0 - Natural(SubSeq(s, 2, Len(s))) ELSE Natural(s)

\* f"{n}" of an integer n
RECURSIVE Str(_)
Str(n) ==
  IF n < 0 THEN "-" \o Str(0 - n)
  ELSE IF n < 10 THEN CharAt("0123456789", n + 1)
  ELSE Str(n \div 10) \o CharAt("0123456789", (n % 10) + 1)

(***************************************************************************)
(* The inputs of the model: the lines an input file is made of.            *)
(***************************************************************************)
\* A statement of the graphics dump with the five fields as written.
GfxStatement(gfxid, note, direction, left, right) ==
  "INSERT INTO `door_gfxs` VALUES ('" \o gfxid \o "', '" \o note \o "', '"
    \o direction \o "', '" \o left \o "', '" \o right \o "');"

\* A statement of the spawn dump; only the fields the model varies are
\* parameters.
SpawnStatement(id, location, x, hp, is_opening) ==
  "INSERT INTO `spawnlist_door` VALUES ('" \o id \o "', '" \o location
    \o "', '339', '" \o x \o "', '32678', '52', '" \o hp \o "', '70684', '"
    \o is_opening \o "');"

GfxCommentedStatement == "-- INSERT INTO `door_gfxs` VALUES ('007','x','0','-0','-12');\n"
GfxTwoStatements ==
  GfxStatement("1", "", "0", "4", "4") \o GfxStatement("2", "", "0", "5", "5") \o "\n"
GfxNegativeId == GfxStatement("-7", "", "1", "0", "3") \o "\n"
GfxNegativeDirection == GfxStatement("7", "", "-1", "0", "3") \o "\n"
GfxWrongArity == "INSERT INTO `door_gfxs` VALUES ('8', 'a', '1', '2');\n"
GfxMissingQuotes == "INSERT INTO `door_gfxs` VALUES (9, 'a', 1, 2, 3);\n"
BlankLine == "\n"

GfxLines ==
  { GfxStatement("101", "north door", "2", "-5", "10") \o "\n",
    GfxStatement("101", "gate", "2", "-5", "10") \o "\n",
    GfxNegativeId, GfxNegativeDirection, GfxCommentedStatement, BlankLine,
    GfxWrongArity, GfxMissingQuotes, GfxTwoStatements }

SpawnCommentedStatement ==
  "-- INSERT INTO `spawnlist_door` VALUES ('06','x','7','8','9','0','00','3','01');\n"
SpawnTwoStatements ==
  SpawnStatement("8", "", "1", "2", "1") \o SpawnStatement("9", "", "1", "2", "0") \o "\n"
SpawnNegativeX == SpawnStatement("5", "", "-4", "100", "1") \o "\n"
SpawnNegativeHp == SpawnStatement("5", "", "4", "-1", "1") \o "\n"
SpawnWrongArity == "INSERT INTO `spawnlist_door` VALUES ('7', 'a', '1', '2', '3', '4', '5', '6');\n"
CommentLine == "-- door spawns\n"

\* The is_opening literals of the model.
OpeningLiterals == {"1", "0", "2", ""}

SpawnLines ==
  { SpawnStatement("1", "Giran", "33632", "0", lit) \o "\n" : lit \in OpeningLiterals }
    \cup
  { SpawnStatement("1", "Kent", "33632", "0", "1") \o "\n",
    SpawnNegativeX, SpawnNegativeHp, SpawnCommentedStatement, CommentLine,
    SpawnWrongArity, SpawnTwoStatements }

\* The files of at most n lines drawn from lines.
FilesUpTo(lines, n) == UNION {[1..k -> lines] : k \in 0..n}

\* A path that names no file, and a file with the lines content.
Absent == [exists |-> FALSE, content |-> <<>>]
File(content) == [exists |-> TRUE, content |-> content]

\* An older document an output path may hold before the run: longer than the
\* document of no entry, shorter than the document of one entry, and
\* different from both.
StaleYaml == File(<<"door_gfxs:\n", "  - gfxid: 999\n", "    direction: 9\n">>)

(***************************************************************************)
(* The state.                                                              *)
(***************************************************************************)
VARIABLES
  gfxSql,     \* the lines of l1j_java/db/Taiwan/door_gfxs.sql
  spawnSql,   \* the lines of l1j_java/db/Taiwan/spawnlist_door.sql
  fs,         \* the files at the two output paths
  before,     \* fs as it was when the run started
  call,       \* the statement of __main__ being executed (index in MainSteps)
  pc,         \* the position inside the called function
  entries,    \* the called function's entries
  pos,        \* the called function's loop: the next line / entry
  gfx,        \* __main__'s gfx
  spawns,     \* __main__'s spawns
  stdout,     \* the lines printed
  failure     \* the function whose I/O raised ("" while none has)

vars == <<gfxSql, spawnSql, fs, before, call, pc, entries, pos, gfx, spawns,
          stdout, failure>>

inputs == <<gfxSql, spawnSql, before>>

GfxYamlPath == "server/data/yaml/door_gfx.yaml"

\* The spawn document written to the path of the graphics document.
SpawnYamlPathSame == "server/data/yaml/door_gfx.yaml"

SpawnYamlPath == "server/data/yaml/door_spawn.yaml"

\* One pipeline after the other: each file written as soon as it is parsed.
MainStepsPerPipeline ==
  <<"parse_gfx_sql", "write_gfx_yaml", "parse_spawn_sql", "write_spawn_yaml">>

\* The statements of __main__ (lines 79-83), in order.
MainSteps ==
  <<"parse_gfx_sql", "parse_spawn_sql", "write_gfx_yaml", "write_spawn_yaml">>

\* The function being executed.
Step == IF call <= Len(MainSteps) THEN MainSteps[call] ELSE "exit"

At(fn, where) == Step = fn /\ pc = where

\* The called function returns: __main__ goes on with its next statement.
Return ==
  /\ call' = call + 1
  /\ pc' = IF call + 1 > Len(MainSteps) THEN "done" ELSE "open"
  /\ entries' = <<>>
  /\ pos' = 1

\* The exception is caught and reported, and __main__ goes on.
Swallowed(fn) ==
  [call |-> call + 1,
   pc |-> IF call + 1 > Len(MainSteps) THEN "done" ELSE "open",
   failure |-> fn]

\* An I/O call of fn raises and nothing catches it: the run terminates with
\* the traceback.
Uncaught(fn) == [call |-> call, pc |-> "failed", failure |-> fn]

Raise(fn) ==
  LET r == Uncaught(fn) IN
  /\ call' = r.call
  /\ pc' = r.pc
  /\ failure' = r.failure
  /\ UNCHANGED <<entries, pos, gfx, spawns, stdout, inputs>>

Init ==
  /\ gfxSql \in FilesUpTo(GfxLines, MaxLines)
  /\ spawnSql \in FilesUpTo(SpawnLines, MaxLines - Len(gfxSql))
  /\ fs \in [{GfxYamlPath, SpawnYamlPath} -> {Absent, StaleYaml}]
  /\ before = fs
  /\ call = 1
  /\ pc = "open"
  /\ entries = <<>>
  /\ pos = 1
  /\ gfx = <<>>
  /\ spawns = <<>>
  /\ stdout = <<>>
  /\ failure = ""

(***************************************************************************)
(* parse_gfx_sql                                                           *)
(***************************************************************************)
\* The dict of lines 16-22.
GfxEntry(g) ==
  [gfxid |-> Int_(g[1]), note |-> g[2], direction |-> Int_(g[3]),
   left_edge_offset |-> Int_(g[4]), right_edge_offset |-> Int_(g[5])]

\* entries.insert(0, ...)
Prepended(es, e) == <<e>> \o es

\* entries.append(...)
Appended(es, e) == Append(es, e)

\* with open(path, 'r') as f:
ParseGfxOpen ==
  /\ At("parse_gfx_sql", "open")
  /\ pc' = "loop"
  /\ entries' = <<>>
  /\ pos' = 1
  /\ UNCHANGED <<call, gfx, spawns, failure, inputs, fs, stdout>>

\* One iteration of  for line in f:
ParseGfxLine ==
  /\ At("parse_gfx_sql", "loop")
  /\ pos <= Len(gfxSql)
  /\ LET m == Search(GfxPattern, gfxSql[pos]) IN
     entries' = IF m.ok THEN Appended(entries, GfxEntry(m.groups)) ELSE entries
  /\ pos' = pos + 1
  /\ UNCHANGED <<call, pc, gfx, spawns, failure, inputs, fs, stdout>>

\* The end of the file: return entries, assigned to gfx.
ParseGfxReturn ==
  /\ At("parse_gfx_sql", "loop")
  /\ pos > Len(gfxSql)
  /\ gfx' = entries
  /\ Return
  /\ UNCHANGED <<spawns, failure, inputs, fs, stdout>>

\* open() or a read of the file raises.
ParseGfxFail ==
  /\ Step = "parse_gfx_sql"
  /\ pc \in {"open", "loop"}
  /\ Raise("parse_gfx_sql")
  /\ UNCHANGED fs

(***************************************************************************)
(* parse_spawn_sql                                                         *)
(***************************************************************************)
\* m.group(9) != '0'
IsOpeningNotZero(s) == s # "0"

\* m.group(9) == '1'
IsOpening(s) == s = "1"

\* The dict of lines 35-45.
SpawnEntry(g) ==
  [id |-> Int_(g[1]), location |-> g[2], gfxid |-> Int_(g[3]), x |-> Int_(g[4]),
   y |-> Int_(g[5]), map_id |-> Int_(g[6]), hp |-> Int_(g[7]),
   keeper |-> Int_(g[8]), is_opening |-> IsOpening(g[9])]

ParseSpawnOpen ==
  /\ At("parse_spawn_sql", "open")
  /\ pc' = "loop"
  /\ entries' = <<>>
  /\ pos' = 1
  /\ UNCHANGED <<call, gfx, spawns, failure, inputs, fs, stdout>>

ParseSpawnLine ==
  /\ At("parse_spawn_sql", "loop")
  /\ pos <= Len(spawnSql)
  /\ LET m == Search(SpawnPattern, spawnSql[pos]) IN
     entries' = IF m.ok THEN Appended(entries, SpawnEntry(m.groups)) ELSE entries
  /\ pos' = pos + 1
  /\ UNCHANGED <<call, pc, gfx, spawns, failure, inputs, fs, stdout>>

ParseSpawnReturn ==
  /\ At("parse_spawn_sql", "loop")
  /\ pos > Len(spawnSql)
  /\ spawns' = entries
  /\ Return
  /\ UNCHANGED <<gfx, failure, inputs, fs, stdout>>

ParseSpawnFail ==
  /\ Step = "parse_spawn_sql"
  /\ pc \in {"open", "loop"}
  /\ Raise("parse_spawn_sql")
  /\ UNCHANGED fs

(***************************************************************************)
(* write_gfx_yaml and write_spawn_yaml                                     *)
(***************************************************************************)
\* open(path, 'a'): what the file holds is kept.
OpenedForAppend(file) == File(file.content)

\* open(path, 'w'): the file is created, or truncated to nothing.
OpenedForWrite(file) == File(<<>>)

\* f.write(text)
Written(file, text) == File(file.content \o text)

\* What a failed write or close leaves of the file being written: the
\* buffered tail of what was written may be lost.
LeftBy(file) == {File(SubSeq(file.content, 1, k)) : k \in 0..Len(file.content)}

\* The list item with the note written too.
GfxItemWithNote(e) ==
  << "  - gfxid: " \o Str(e.gfxid) \o "\n",
     "    note: " \o e.note \o "\n",
     "    direction: " \o Str(e.direction) \o "\n",
     "    left_edge_offset: " \o Str(e.left_edge_offset) \o "\n",
     "    right_edge_offset: " \o Str(e.right_edge_offset) \o "\n" >>

\* The four f.write() of lines 52-55.
GfxItem(e) ==
  << "  - gfxid: " \o Str(e.gfxid) \o "\n",
     "    direction: " \o Str(e.direction) \o "\n",
     "    left_edge_offset: " \o Str(e.left_edge_offset) \o "\n",
     "    right_edge_offset: " \o Str(e.right_edge_offset) \o "\n" >>

\* The eight f.write() of lines 62-70.
SpawnItem(e) ==
  << "  - id: " \o Str(e.id) \o "\n",
     "    gfxid: " \o Str(e.gfxid) \o "\n",
     "    x: " \o Str(e.x) \o "\n",
     "    y: " \o Str(e.y) \o "\n",
     "    map_id: " \o Str(e.map_id) \o "\n",
     "    hp: " \o Str(e.hp) \o "\n",
     "    keeper: " \o Str(e.keeper) \o "\n",
     "    is_opening: " \o (IF e.is_opening THEN "true" ELSE "false") \o "\n" >>

\* The count of the completion line one too high.
CompletionOffByOne(es, what, path) ==
  "Wrote " \o Str(Len(es) + 1) \o " " \o what \o " entries to " \o path

\* f"Wrote {len(entries)} GFX entries to {path}"   (lines 56 and 71)
Completion(es, what, path) ==
  "Wrote " \o Str(Len(es)) \o " " \o what \o " entries to " \o path

\* with open(path, 'w') as f:
WriteGfxOpen ==
  /\ At("write_gfx_yaml", "open")
  /\ fs' = [fs EXCEPT ![GfxYamlPath] = OpenedForWrite(@)]
  /\ entries' = gfx
  /\ pc' = "header"
  /\ UNCHANGED <<call, pos, gfx, spawns, failure, inputs, stdout>>

\* f.write("door_gfxs:\n")
WriteGfxHeader ==
  /\ At("write_gfx_yaml", "header")
  /\ fs' = [fs EXCEPT ![GfxYamlPath] = Written(@, <<"door_gfxs:\n">>)]
  /\ pc' = "loop"
  /\ pos' = 1
  /\ UNCHANGED <<call, entries, gfx, spawns, failure, inputs, stdout>>

\* One iteration of  for e in entries:
WriteGfxEntry ==
  /\ At("write_gfx_yaml", "loop")
  /\ pos <= Len(entries)
  /\ fs' = [fs EXCEPT ![GfxYamlPath] = Written(@, GfxItem(entries[pos]))]
  /\ pos' = pos + 1
  /\ UNCHANGED <<call, pc, entries, gfx, spawns, failure, inputs, stdout>>

\* The file is closed, then the completion line is printed.
WriteGfxDone ==
  /\ At("write_gfx_yaml", "loop")
  /\ pos > Len(entries)
  /\ stdout' = Append(stdout, Completion(entries, "GFX", GfxYamlPath))
  /\ Return
  /\ UNCHANGED <<gfx, spawns, failure, inputs, fs>>

\* open() raises and the file is left as it was, or a write or the close
\* raises.
WriteGfxFail ==
  /\ Step = "write_gfx_yaml"
  /\ \/ pc = "open" /\ UNCHANGED fs
     \/ /\ pc \in {"header", "loop"}
        /\ \E left \in LeftBy(fs[GfxYamlPath]) : fs' = [fs EXCEPT ![GfxYamlPath] = left]
  /\ Raise("write_gfx_yaml")

WriteSpawnOpen ==
  /\ At("write_spawn_yaml", "open")
  /\ fs' = [fs EXCEPT ![SpawnYamlPath] = OpenedForWrite(@)]
  /\ entries' = spawns
  /\ pc' = "header"
  /\ UNCHANGED <<call, pos, gfx, spawns, failure, inputs, stdout>>

\* f.write("doors:\n")
WriteSpawnHeader ==
  /\ At("write_spawn_yaml", "header")
  /\ fs' = [fs EXCEPT ![SpawnYamlPath] = Written(@, <<"doors:\n">>)]
  /\ pc' = "loop"
  /\ pos' = 1
  /\ UNCHANGED <<call, entries, gfx, spawns, failure, inputs, stdout>>

WriteSpawnEntry ==
  /\ At("write_spawn_yaml", "loop")
  /\ pos <= Len(entries)
  /\ fs' = [fs EXCEPT ![SpawnYamlPath] = Written(@, SpawnItem(entries[pos]))]
  /\ pos' = pos + 1
  /\ UNCHANGED <<call, pc, entries, gfx, spawns, failure, inputs, stdout>>

WriteSpawnDone ==
  /\ At("write_spawn_yaml", "loop")
  /\ pos > Len(entries)
  /\ stdout' = Append(stdout, Completion(entries, "spawn", SpawnYamlPath))
  /\ Return
  /\ UNCHANGED <<gfx, spawns, failure, inputs, fs>>

WriteSpawnFail ==
  /\ Step = "write_spawn_yaml"
  /\ \/ pc = "open" /\ UNCHANGED fs
     \/ /\ pc \in {"header", "loop"}
        /\ \E left \in LeftBy(fs[SpawnYamlPath]) : fs' = [fs EXCEPT ![SpawnYamlPath] = left]
  /\ Raise("write_spawn_yaml")

Next ==
  \/ ParseGfxOpen \/ ParseGfxLine \/ ParseGfxReturn \/ ParseGfxFail
  \/ ParseSpawnOpen \/ ParseSpawnLine \/ ParseSpawnReturn \/ ParseSpawnFail
  \/ WriteGfxOpen \/ WriteGfxHeader \/ WriteGfxEntry \/ WriteGfxDone \/ WriteGfxFail
  \/ WriteSpawnOpen \/ WriteSpawnHeader \/ WriteSpawnEntry \/ WriteSpawnDone
  \/ WriteSpawnFail

Spec == Init /\ [][Next]_vars

(***************************************************************************)
(* Definitions the properties are stated with.                             *)
(***************************************************************************)
\* fn has been called by __main__ and has returned.
Returned(fn) == \E i \in 1..Len(MainSteps) : MainSteps[i] = fn /\ call > i

RECURSIVE Flatten(_)
Flatten(ss) == IF Len(ss) = 0 THEN <<>> ELSE Head(ss) \o Flatten(Tail(ss))

StartsWith(l, prefix) ==
  Len(l) >= Len(prefix) /\ SubSeq(l, 1, Len(prefix)) = prefix

IsPrefix(a, b) == Len(a) <= Len(b) /\ a = SubSeq(b, 1, Len(a))

\* The lines of a document that begin a list item.
IsItemHead(l) == StartsWith(l, "  - ")
ListItems(file) == SelectSeq(file.content, IsItemHead)

\* What one iteration of the loop of a parse function appends for a line:
\* no record or one.  Tabulated over the lines of the model.
GfxRecordsOfLine ==
  [l \in GfxLines |->
     LET m == Search(GfxPattern, l) IN IF m.ok THEN <<GfxEntry(m.groups)>> ELSE <<>>]

SpawnRecordsOfLine ==
  [l \in SpawnLines |->
     LET m == Search(SpawnPattern, l) IN IF m.ok THEN <<SpawnEntry(m.groups)>> ELSE <<>>]

GfxMatches(line) == GfxRecordsOfLine[line] # <<>>
SpawnMatches(line) == SpawnRecordsOfLine[line] # <<>>

\* The records of the lines of a file that match, in the order of the file.
GfxRecordsOf(lines) ==
  LET m == SelectSeq(lines, GfxMatches) IN
  [i \in 1..Len(m) |-> GfxRecordsOfLine[m[i]][1]]

SpawnRecordsOf(lines) ==
  LET m == SelectSeq(lines, SpawnMatches) IN
  [i \in 1..Len(m) |-> SpawnRecordsOfLine[m[i]][1]]

\* The list items of the records of a line, as the emitter writes them.
GfxItemsOfLine ==
  [l \in GfxLines |->
     IF GfxRecordsOfLine[l] = <<>> THEN <<>> ELSE GfxItem(GfxRecordsOfLine[l][1])]

SpawnItemsOfLine ==
  [l \in SpawnLines |->
     IF SpawnRecordsOfLine[l] = <<>> THEN <<>> ELSE SpawnItem(SpawnRecordsOfLine[l][1])]

\* The document of an input file.
GfxDocumentOf(lines) ==
  <<"door_gfxs:\n">> \o Flatten([i \in 1..Len(lines) |-> GfxItemsOfLine[lines[i]]])

SpawnDocumentOf(lines) ==
  <<"doors:\n">> \o Flatten([i \in 1..Len(lines) |-> SpawnItemsOfLine[lines[i]]])

\* The lines of the file being parsed that the loop has gone through.
GfxLinesRead == SubSeq(gfxSql, 1, pos - 1)
SpawnLinesRead == SubSeq(spawnSql, 1, pos - 1)

NorthDoor == GfxStatement("101", "north door", "2", "-5", "10") \o "\n"
Gate == GfxStatement("101", "gate", "2", "-5", "10") \o "\n"

(***************************************************************************)
(* C1.  The records a parse function returns are the records of the        *)
(* matching lines of its file in file order (record i comes from the i-th  *)
(* matching line: nothing reordered, nothing dropped for an equal id,      *)
(* nothing added), and the list items of the document written follow the   *)
(* same order.                                                             *)
(***************************************************************************)
C1_InputOrder ==
  /\ Returned("parse_gfx_sql") => gfx = GfxRecordsOf(gfxSql)
  /\ Returned("parse_spawn_sql") => spawns = SpawnRecordsOf(spawnSql)
  /\ Returned("write_gfx_yaml") =>
       ListItems(fs[GfxYamlPath]) =
         [i \in 1..Len(gfx) |-> "  - gfxid: " \o Str(gfx[i].gfxid) \o "\n"]
  /\ Returned("write_spawn_yaml") =>
       ListItems(fs[SpawnYamlPath]) =
         [i \in 1..Len(spawns) |-> "  - id: " \o Str(spawns[i].id) \o "\n"]

\* Two matching lines with the same gfxid and different notes: both records
\* are kept, in the order of the file.
C1_Witness ==
  /\ pc = "done"
  /\ gfxSql = <<Gate, NorthDoor>>
  /\ Len(gfx) = 2
  /\ gfx[1].gfxid = gfx[2].gfxid
  /\ gfx[1].note = "gate" /\ gfx[2].note = "north door"

MatchedGfxLines == Cardinality({i \in 1..Len(gfxSql) : GfxMatches(gfxSql[i])})
MatchedSpawnLines == Cardinality({i \in 1..Len(spawnSql) : SpawnMatches(spawnSql[i])})

(***************************************************************************)
(* C2.  After a successful run, for each pipeline the number of list items *)
(* of the document equals the number of input lines the pattern is found   *)
(* in (one per line, whatever the number of statements on the line) and    *)
(* the count of the completion line; with no matching line the document is *)
(* the top-level key line alone and the count is 0.                        *)
(***************************************************************************)
C2_Count ==
  pc = "done" =>
    /\ Len(ListItems(fs[GfxYamlPath])) = MatchedGfxLines
    /\ Len(ListItems(fs[SpawnYamlPath])) = MatchedSpawnLines
    /\ stdout = << "Wrote " \o Str(MatchedGfxLines)
                     \o " GFX entries to server/data/yaml/door_gfx.yaml",
                   "Wrote " \o Str(MatchedSpawnLines)
                     \o " spawn entries to server/data/yaml/door_spawn.yaml" >>
    /\ MatchedGfxLines = 0 => fs[GfxYamlPath] = File(<<"door_gfxs:\n">>)
    /\ MatchedSpawnLines = 0 => fs[SpawnYamlPath] = File(<<"doors:\n">>)

\* A line with two statements gives one list item; an empty file gives the
\* key line and a count of 0.
C2_Witness ==
  /\ pc = "done"
  /\ gfxSql = <<GfxTwoStatements>>
  /\ Len(ListItems(fs[GfxYamlPath])) = 1
  /\ spawnSql = <<>>
  /\ fs[SpawnYamlPath] = File(<<"doors:\n">>)
  /\ stdout[2] = "Wrote 0 spawn entries to server/data/yaml/door_spawn.yaml"

(***************************************************************************)
(* C3.  The is_opening literal.                                            *)
(***************************************************************************)
\* The spawn lines that are well formed but for their is_opening literal.
OpeningLine(lit) == SpawnStatement("1", "Giran", "33632", "0", lit) \o "\n"
OpeningLiteralOf(line) == CHOOSE lit \in OpeningLiterals : line = OpeningLine(lit)
IsOpeningLine(line) == \E lit \in OpeningLiterals : line = OpeningLine(lit)
OnlyOpeningLines(lines) == \A i \in 1..Len(lines) : IsOpeningLine(lines[i])
HasOpeningLiteral(line) == OpeningLiteralOf(line) # ""

IsOpeningField(l) == StartsWith(l, "    is_opening: ")

\* C3 as claimed: every such line gives exactly one record, is_opening true
\* for the literal '1' and false for any other literal, '' included.
C3_AnyLiteralGivesARecord ==
  (At("parse_spawn_sql", "loop") /\ OnlyOpeningLines(SpawnLinesRead)) =>
    /\ Len(entries) = Len(SpawnLinesRead)
    /\ \A i \in 1..Len(entries) :
         entries[i].is_opening = (OpeningLiteralOf(SpawnLinesRead[i]) = "1")

\* C3, amended: a line whose is_opening literal is a string of digits gives
\* exactly one record, is_opening true for '1' and false for any other
\* ('0', '2'), written as "is_opening: true" and "is_opening: false"; a line
\* whose literal is empty is not matched and gives no record.
C3_DigitLiteralGivesARecord ==
  /\ (At("parse_spawn_sql", "loop") /\ OnlyOpeningLines(SpawnLinesRead)) =>
       LET kept == SelectSeq(SpawnLinesRead, HasOpeningLiteral) IN
       /\ Len(entries) = Len(kept)
       /\ \A i \in 1..Len(entries) :
            entries[i].is_opening = (OpeningLiteralOf(kept[i]) = "1")
  /\ (Returned("write_spawn_yaml") /\ OnlyOpeningLines(spawnSql)) =>
       LET kept == SelectSeq(spawnSql, HasOpeningLiteral) IN
       SelectSeq(fs[SpawnYamlPath].content, IsOpeningField) =
         [i \in 1..Len(kept) |->
            IF OpeningLiteralOf(kept[i]) = "1"
              THEN "    is_opening: true\n" ELSE "    is_opening: false\n"]

\* The literals '' and '2': no record for the first, is_opening false for
\* the second.
C3_Witness ==
  /\ pc = "done"
  /\ spawnSql = <<OpeningLine(""), OpeningLine("2")>>
  /\ Len(spawns) = 1
  /\ spawns[1].is_opening = FALSE
  /\ SelectSeq(fs[SpawnYamlPath].content, IsOpeningField) = <<"    is_opening: false\n">>

(***************************************************************************)
(* C4.  Signed integer fields.                                             *)
(***************************************************************************)
\* Well-formed lines with a leading '-' in an integer field, and the values
\* as written.
SignedGfxValues ==
  (NorthDoor :> [gfxid |-> 101, note |-> "north door", direction |-> 2,
                 left_edge_offset |-> 0 - 5, right_edge_offset |-> 10])
  @@ (Gate :> [gfxid |-> 101, note |-> "gate", direction |-> 2,
               left_edge_offset |-> 0 - 5, right_edge_offset |-> 10])
  @@ (GfxNegativeId :> [gfxid |-> 0 - 7, note |-> "", direction |-> 1,
                        left_edge_offset |-> 0, right_edge_offset |-> 3])
  @@ (GfxNegativeDirection :> [gfxid |-> 7, note |-> "", direction |-> 0 - 1,
                               left_edge_offset |-> 0, right_edge_offset |-> 3])

SignedSpawnValues ==
  (SpawnNegativeX :> [id |-> 5, x |-> 0 - 4, hp |-> 100])
  @@ (SpawnNegativeHp :> [id |-> 5, x |-> 4, hp |-> 0 - 1])

OnlyLinesOf(lines, table) == \A i \in 1..Len(lines) : lines[i] \in DOMAIN table

\* The lines among them whose only signed fields are the two edge offsets.
SignedOffsetsOnly(line) == line \in {NorthDoor, Gate}

\* C4 as claimed: a leading '-' in any integer field is parsed, and the line
\* gives exactly one record with the values as written.
C4_AnyFieldSigned ==
  /\ (At("parse_gfx_sql", "loop") /\ OnlyLinesOf(GfxLinesRead, SignedGfxValues)) =>
       entries = [i \in 1..Len(GfxLinesRead) |-> SignedGfxValues[GfxLinesRead[i]]]
  /\ (At("parse_spawn_sql", "loop") /\ OnlyLinesOf(SpawnLinesRead, SignedSpawnValues)) =>
       /\ Len(entries) = Len(SpawnLinesRead)
       /\ \A i \in 1..Len(entries) :
            LET v == SignedSpawnValues[SpawnLinesRead[i]] IN
            entries[i].id = v.id /\ entries[i].x = v.x /\ entries[i].hp = v.hp

\* C4, amended: left_edge_offset and right_edge_offset are parsed as signed
\* base-10 integers (a well-formed graphics line with a leading '-' in them
\* gives exactly one record with the values as written); every other integer
\* field is a string of digits, and a line with a leading '-' in one of them
\* (gfxid, direction, or any integer field of a spawn line) is not matched
\* and gives no record.
C4_OffsetsSigned ==
  /\ (At("parse_gfx_sql", "loop") /\ OnlyLinesOf(GfxLinesRead, SignedGfxValues)) =>
       LET kept == SelectSeq(GfxLinesRead, SignedOffsetsOnly) IN
       entries = [i \in 1..Len(kept) |-> SignedGfxValues[kept[i]]]
  /\ (At("parse_spawn_sql", "loop") /\ OnlyLinesOf(SpawnLinesRead, SignedSpawnValues)) =>
       entries = <<>>

\* A negative gfxid gives no record, a negative offset is parsed.
C4_Witness ==
  /\ At("parse_gfx_sql", "loop")
  /\ gfxSql = <<GfxNegativeId, NorthDoor>>
  /\ pos = 3
  /\ Len(entries) = 1
  /\ entries[1].left_edge_offset = 0 - 5

(***************************************************************************)
(* C5.  Lines that are not a statement of the table.                       *)
(***************************************************************************)
NotAGfxStatement == {BlankLine, GfxWrongArity, GfxMissingQuotes}
NotASpawnStatement == {CommentLine, SpawnWrongArity}

NotSkippedAsClaimed(line) ==
  line \notin NotAGfxStatement \cup NotASpawnStatement
                \cup {GfxCommentedStatement, SpawnCommentedStatement}

NotSkipped(line) == line \notin NotAGfxStatement \cup NotASpawnStatement

IsCommentedStatement(line) == line \in {GfxCommentedStatement, SpawnCommentedStatement}

\* The record of the statement in GfxCommentedStatement, SpawnCommentedStatement.
GfxCommentedRecord ==
  [gfxid |-> 7, note |-> "x", direction |-> 0, left_edge_offset |-> 0,
   right_edge_offset |-> 0 - 12]
SpawnCommentedRecord ==
  [id |-> 6, location |-> "x", gfxid |-> 7, x |-> 8, y |-> 9, map_id |-> 0,
   hp |-> 0, keeper |-> 3, is_opening |-> FALSE]

IsCommentedRecord(e) == e \in {GfxCommentedRecord, SpawnCommentedRecord}

\* C5 as claimed: a line of wrong arity, without quotes, blank or a comment
\* (a comment that holds a complete statement included) appends nothing, and
\* the lines after it are parsed as if it were not there.
C5_CommentedStatementSkipped ==
  /\ At("parse_gfx_sql", "loop") =>
       entries = GfxRecordsOf(SelectSeq(GfxLinesRead, NotSkippedAsClaimed))
  /\ At("parse_spawn_sql", "loop") =>
       entries = SpawnRecordsOf(SelectSeq(SpawnLinesRead, NotSkippedAsClaimed))

\* C5, amended: a line of wrong arity, without quotes, blank or a comment
\* without a statement appends nothing and the lines after it are parsed as
\* if it were not there; a comment line that holds a complete statement is
\* matched (the pattern is searched anywhere in the line) and appends the
\* record of that statement.
C5_LinesWithoutStatementSkipped ==
  /\ At("parse_gfx_sql", "loop") =>
       /\ entries = GfxRecordsOf(SelectSeq(GfxLinesRead, NotSkipped))
       /\ Len(SelectSeq(entries, IsCommentedRecord))
            = Len(SelectSeq(GfxLinesRead, IsCommentedStatement))
  /\ At("parse_spawn_sql", "loop") =>
       /\ entries = SpawnRecordsOf(SelectSeq(SpawnLinesRead, NotSkipped))
       /\ Len(SelectSeq(entries, IsCommentedRecord))
            = Len(SelectSeq(SpawnLinesRead, IsCommentedStatement))

\* A line without quotes is skipped, and the commented statement after it
\* gives its record.
C5_Witness ==
  /\ At("parse_gfx_sql", "loop")
  /\ gfxSql = <<GfxMissingQuotes, GfxCommentedStatement>>
  /\ pos = 3
  /\ entries = <<GfxCommentedRecord>>

(***************************************************************************)
(* C6.  Once a write function has returned, the file at its path is the    *)
(* document of the corresponding input file, whatever the path held before *)
(* the run (nothing, or an older document that is shorter or longer than   *)
(* the new one): a second run on unchanged input writes the same files.    *)
(***************************************************************************)
C6_Overwrite ==
  /\ Returned("write_gfx_yaml") => fs[GfxYamlPath] = File(GfxDocumentOf(gfxSql))
  /\ Returned("write_spawn_yaml") => fs[SpawnYamlPath] = File(SpawnDocumentOf(spawnSql))

\* The older graphics document was longer than the new one, the older spawn
\* document shorter.
C6_Witness ==
  /\ pc = "done"
  /\ before[GfxYamlPath] = StaleYaml
  /\ before[SpawnYamlPath] = StaleYaml
  /\ Len(fs[GfxYamlPath].content) < Len(StaleYaml.content)
  /\ Len(fs[SpawnYamlPath].content) > Len(StaleYaml.content)

Field(lead, name, value) == lead \o name \o ": " \o value \o "\n"

GfxBlock(e) ==
  << Field("  - ", "gfxid", Str(e.gfxid)),
     Field("    ", "direction", Str(e.direction)),
     Field("    ", "left_edge_offset", Str(e.left_edge_offset)),
     Field("    ", "right_edge_offset", Str(e.right_edge_offset)) >>

SpawnBlock(e) ==
  << Field("  - ", "id", Str(e.id)),
     Field("    ", "gfxid", Str(e.gfxid)),
     Field("    ", "x", Str(e.x)),
     Field("    ", "y", Str(e.y)),
     Field("    ", "map_id", Str(e.map_id)),
     Field("    ", "hp", Str(e.hp)),
     Field("    ", "keeper", Str(e.keeper)),
     Field("    ", "is_opening", IF e.is_opening THEN "true" ELSE "false") >>

(***************************************************************************)
(* C7.  The document written is the top-level key line followed, for every *)
(* record in order, by one list item of exactly the designated fields in   *)
(* the fixed order, each with the record's value; note and location are    *)
(* not written.                                                            *)
(***************************************************************************)
C7_DesignatedFields ==
  /\ Returned("write_gfx_yaml") =>
       fs[GfxYamlPath].content =
         <<"door_gfxs:\n">> \o Flatten([i \in 1..Len(gfx) |-> GfxBlock(gfx[i])])
  /\ Returned("write_spawn_yaml") =>
       fs[SpawnYamlPath].content =
         <<"doors:\n">> \o Flatten([i \in 1..Len(spawns) |-> SpawnBlock(spawns[i])])

\* Two records that differ in their note only are written as the same item.
C7_Witness ==
  /\ pc = "done"
  /\ Len(gfx) = 2
  /\ gfx[1].note # gfx[2].note
  /\ Len(fs[GfxYamlPath].content) = 9
  /\ SubSeq(fs[GfxYamlPath].content, 2, 5) = SubSeq(fs[GfxYamlPath].content, 6, 9)

GfxCompletion == Completion(gfx, "GFX", GfxYamlPath)
SpawnCompletion == Completion(spawns, "spawn", SpawnYamlPath)

\* The positions of a run that has not ended.
InsideAFunction ==
  \/ Step \in {"parse_gfx_sql", "parse_spawn_sql"} /\ pc \in {"open", "loop"}
  \/ Step \in {"write_gfx_yaml", "write_spawn_yaml"} /\ pc \in {"open", "header", "loop"}

C8_Endings ==
  /\ pc \notin {"done", "failed"} => (failure = "" /\ InsideAFunction)
  /\ pc = "done" =>
       /\ failure = ""
       /\ fs[GfxYamlPath] = File(GfxDocumentOf(gfxSql))
       /\ fs[SpawnYamlPath] = File(SpawnDocumentOf(spawnSql))
       /\ stdout = <<GfxCompletion, SpawnCompletion>>
  /\ pc = "failed" =>
       /\ failure \in {"parse_gfx_sql", "parse_spawn_sql", "write_gfx_yaml",
                       "write_spawn_yaml"}
       /\ failure = Step
       /\ ~ Returned(failure)
       /\ failure = "parse_gfx_sql" => gfx = <<>>
       /\ failure \in {"parse_gfx_sql", "parse_spawn_sql"} =>
            (spawns = <<>> /\ fs = before /\ stdout = <<>>)
       /\ failure = "write_gfx_yaml" =>
            (fs[SpawnYamlPath] = before[SpawnYamlPath] /\ stdout = <<>>)
       /\ failure = "write_spawn_yaml" => stdout = <<GfxCompletion>>
  /\ Len(stdout) >= 1 =>
       /\ stdout[1] = GfxCompletion
       /\ Returned("write_gfx_yaml")
       /\ fs[GfxYamlPath] = File(GfxDocumentOf(gfxSql))
  /\ Len(stdout) >= 2 =>
       /\ stdout = <<GfxCompletion, SpawnCompletion>>
       /\ Returned("write_spawn_yaml")
       /\ fs[SpawnYamlPath] = File(SpawnDocumentOf(spawnSql))

(***************************************************************************)
(* C8.  A run ends in one of two ways.  Success: no I/O call raised, both  *)
(* documents are complete and the two completion lines are printed, the    *)
(* GFX line first, each only once its file is written.  Or the first I/O   *)
(* call that raises terminates the run: no step follows, nothing of the    *)
(* later functions is read, written or printed.                            *)
(* No step is taken from a state in which the run has ended, and no step   *)
(* goes back to an earlier statement of __main__ (nothing is retried).     *)
(***************************************************************************)
C8_TwoEndings ==
  /\ [] C8_Endings
  /\ [][pc \notin {"done", "failed"} /\ call' >= call]_vars

\* A write of the spawn document raises: the GFX completion line has been
\* printed, the spawn one is not.
C8_Witness ==
  /\ pc = "failed"
  /\ failure = "write_spawn_yaml"
  /\ stdout = <<GfxCompletion>>
  /\ Len(spawns) > 0
  /\ fs[SpawnYamlPath] = File(<<"doors:\n">>)

(***************************************************************************)
(* C9.  The two pipelines.                                                 *)
(***************************************************************************)
\* C9 as claimed: whether one input can be read does not change whether the
\* other pipeline writes its document.
C9_WritesWhateverTheOtherInput ==
  /\ (pc = "failed" /\ failure = "parse_gfx_sql") =>
       fs[SpawnYamlPath] = File(SpawnDocumentOf(spawnSql))
  /\ (pc = "failed" /\ failure = "parse_spawn_sql") =>
       fs[GfxYamlPath] = File(GfxDocumentOf(gfxSql))

\* C9, amended: what a pipeline writes is determined by its own input file
\* alone (at any time the file at an output path is the file that was there
\* before the run, or the document of the pipeline's own input file, or the
\* beginning of that document), but whether it writes depends on the other
\* pipeline: when the read of either input file fails neither output file is
\* written, and when the write of the graphics document fails the spawn
\* document is not written.
C9_OwnInputOnly ==
  /\ \/ fs[GfxYamlPath] = before[GfxYamlPath]
     \/ /\ fs[GfxYamlPath].exists
        /\ IsPrefix(fs[GfxYamlPath].content, GfxDocumentOf(gfxSql))
  /\ \/ fs[SpawnYamlPath] = before[SpawnYamlPath]
     \/ /\ fs[SpawnYamlPath].exists
        /\ IsPrefix(fs[SpawnYamlPath].content, SpawnDocumentOf(spawnSql))
  /\ failure \in {"parse_gfx_sql", "parse_spawn_sql"} => fs = before
  /\ failure = "write_gfx_yaml" => fs[SpawnYamlPath] = before[SpawnYamlPath]

\* The graphics file cannot be read: the spawn file, which holds a record,
\* is not converted.
C9_Witness ==
  /\ pc = "failed"
  /\ failure = "parse_gfx_sql"
  /\ spawnSql = <<OpeningLine("1")>>
  /\ before[SpawnYamlPath] = Absent
  /\ fs[SpawnYamlPath] = Absent

(***************************************************************************)
(* C10.  Both input files are parsed, the graphics file first, before      *)
(* either output file is opened: an output file differs from what it was   *)
(* before the run only once both parse functions have returned, and when   *)
(* the read of an input file fails both output paths are as they were and  *)
(* nothing is printed.                                                     *)
(***************************************************************************)
C10_ParseBeforeWrite ==
  /\ Step = "parse_spawn_sql" => Returned("parse_gfx_sql")
  /\ Returned("parse_spawn_sql") => Returned("parse_gfx_sql")
  /\ (fs # before \/ stdout # <<>> \/ Step \in {"write_gfx_yaml", "write_spawn_yaml"}) =>
       (Returned("parse_gfx_sql") /\ Returned("parse_spawn_sql"))
  /\ failure \in {"parse_gfx_sql", "parse_spawn_sql"} =>
       (fs = before /\ stdout = <<>>)

\* The graphics file was parsed and holds a record; the read of the spawn
\* file fails; the older graphics document is still there.
C10_Witness ==
  /\ pc = "failed"
  /\ failure = "parse_spawn_sql"
  /\ Len(gfx) > 0
  /\ before[GfxYamlPath] = StaleYaml
  /\ fs = before
  /\ stdout = <<>>

=============================================================================
